---- MODULE Spec2Model ----
(***************************************************************************)
(* A model of gocircular.Buffer[T], the generic fixed-capacity ring buffer *)
(* (src/unnamed/part_001).  Every method is a pure operator over a buffer  *)
(* record [buf, r, n] that computes what the Go method computes, and one   *)
(* action per method applies it to the buffer under test.  T is int and    *)
(* its zero value is 0.  A Go slice index k is position k + 1 of the       *)
(* sequence that models the slice.                                         *)
(***************************************************************************)
EXTENDS Integers, Sequences, FiniteSets

VARIABLES
    buf,    \* Buffer.buf: the backing slice; Len(buf) is the capacity
    r,      \* Buffer.r: read position (front index)
    n,      \* Buffer.n: number of elements
    last,   \* the last call: method, arguments and what it returned
    prev,   \* the buffer as it was when the last call started
    abs,    \* reference deque run side by side with the buffer
    pair,   \* a push on a non-full buffer and the pop that directly follows it
    run,    \* the pushes at one end made since the buffer was last seen empty
    clock,  \* number of elements inserted so far (stamped-value runs only)
    heap,   \* what Clone and ToSlice returned, and the arrays it shares
    legacy  \* a CircularBuffer (src/circularbuffer.go) driven with the same calls

vars == <<buf, r, n, last, prev, abs, pair, run, clock, heap, legacy>>

\* ------------------------------------------------------------------ bounds
MaxCap == 3      \* capacities 1..MaxCap
MaxVal == 2      \* element values 0..MaxVal (0 is the zero value)
MaxPush == 5     \* longest tracked run of pushes at one end
MaxClock == 4    \* insertions in a stamped-value run
MaxHeapCap == 2  \* capacities 1..MaxHeapCap where two objects are followed
MaxHeapVal == 1  \* element values 0..MaxHeapVal where two objects are followed

Zero == 0
Vals == 0..MaxVal
Caps == 1..MaxCap
Indices == (0 - 1)..MaxCap
HeapVals == 0..MaxHeapVal
HeapCaps == 1..MaxHeapCap

\* ------------------------------------------------------- Go's arithmetic
\* Go's % truncates toward zero: the result has the sign of the dividend.
GoMod(a, b) == IF a >= 0 THEN a % b ELSE 0 - ((0 - a) % b)

\* s[k] and s[k] = v for a Go slice s and a 0-based index k.
Get(s, k) == s[k + 1]
Put(s, k, v) == [s EXCEPT ![k + 1] = v]

\* make([]T, c): c zero values.
Make(c) == [k \in 1..c |-> Zero]

\* What a method leaves and returns: the buffer, a value and a flag.
Res(b, val, ok) == [b |-> b, val |-> val, ok |-> ok, panic |-> FALSE]

\* A call that ends in panic(...) with the buffer as it is at that point.
Panic(b) == [b |-> b, val |-> Zero, ok |-> FALSE, panic |-> TRUE]

\* No buffer.
NoBuf == [buf |-> <<>>, r |-> 0, n |-> 0]

\* ------------------------------------------------------------ the methods
New(capacity) ==
    IF capacity < 1 THEN Panic(NoBuf)
    ELSE Res([buf |-> Make(capacity), r |-> 0, n |-> 0], Zero, TRUE)

Len_(B) == B.n
Cap(B) == Len(B.buf)
Empty(B) == B.n = 0
Full(B) == B.n = Len(B.buf)

\* Seeded fault: the slot is computed from the read position as it was before
\* the full case advanced it.
PushBack_StaleIndex(B, v) ==
    LET c == Len(B.buf)
        full == B.n = c
        r1 == IF full THEN GoMod(B.r + 1, c) ELSE B.r
        n1 == IF full THEN B.n ELSE B.n + 1
    IN Res([buf |-> Put(B.buf, GoMod(B.r + n1 - 1, c), v), r |-> r1, n |-> n1],
           Zero, full)

\* Seeded fault: the full case does not advance the read position.
PushBack_NoAdvance(B, v) ==
    LET c == Len(B.buf)
        full == B.n = c
        n1 == IF full THEN B.n ELSE B.n + 1
    IN Res([buf |-> Put(B.buf, GoMod(B.r + n1 - 1, c), v), r |-> B.r, n |-> n1],
           Zero, full)

PushBack(B, v) ==
    LET c == Len(B.buf)
        full == B.n = c
        r1 == IF full THEN GoMod(B.r + 1, c) ELSE B.r
        n1 == IF full THEN B.n ELSE B.n + 1
    IN Res([buf |-> Put(B.buf, GoMod(r1 + n1 - 1, c), v), r |-> r1, n |-> n1],
           Zero, full)

\* Seeded fault: the read position moves forward instead of backward.
PushFront_ForwardShift(B, v) ==
    LET c == Len(B.buf)
        full == B.n = c
        r1 == GoMod(B.r + 1, c)
        n1 == IF full THEN B.n ELSE B.n + 1
    IN Res([buf |-> Put(B.buf, r1, v), r |-> r1, n |-> n1], Zero, full)

\* Seeded fault: the value is written at the read position as it was before
\* the shift.
PushFront_StaleRead(B, v) ==
    LET c == Len(B.buf)
        full == B.n = c
        r1 == GoMod(B.r + c - 1, c)
        n1 == IF full THEN B.n ELSE B.n + 1
    IN Res([buf |-> Put(B.buf, B.r, v), r |-> r1, n |-> n1], Zero, full)

PushFront(B, v) ==
    LET c == Len(B.buf)
        full == B.n = c
        r1 == GoMod(B.r + c - 1, c)
        n1 == IF full THEN B.n ELSE B.n + 1
    IN Res([buf |-> Put(B.buf, r1, v), r |-> r1, n |-> n1], Zero, full)

\* Seeded fault: the vacated slot is not cleared.
PopBack_NoClear(B) ==
    IF B.n = 0 THEN Res(B, Zero, FALSE)
    ELSE LET c == Len(B.buf)
             i == GoMod(B.r + B.n - 1, c)
         IN Res([buf |-> B.buf, r |-> B.r, n |-> B.n - 1], Get(B.buf, i), TRUE)

PopBack(B) ==
    IF B.n = 0 THEN Res(B, Zero, FALSE)
    ELSE LET c == Len(B.buf)
             i == GoMod(B.r + B.n - 1, c)
         IN Res([buf |-> Put(B.buf, i, Zero), r |-> B.r, n |-> B.n - 1],
                Get(B.buf, i), TRUE)

\* Seeded fault: the read position is not advanced.
PopFront_NoAdvance(B) ==
    IF B.n = 0 THEN Res(B, Zero, FALSE)
    ELSE Res([buf |-> Put(B.buf, B.r, Zero), r |-> B.r, n |-> B.n - 1],
             Get(B.buf, B.r), TRUE)

\* Seeded fault: the vacated slot is not cleared.
PopFront_NoClear(B) ==
    IF B.n = 0 THEN Res(B, Zero, FALSE)
    ELSE LET c == Len(B.buf)
         IN Res([buf |-> B.buf, r |-> GoMod(B.r + 1, c), n |-> B.n - 1],
                Get(B.buf, B.r), TRUE)

PopFront(B) ==
    IF B.n = 0 THEN Res(B, Zero, FALSE)
    ELSE LET c == Len(B.buf)
         IN Res([buf |-> Put(B.buf, B.r, Zero), r |-> GoMod(B.r + 1, c), n |-> B.n - 1],
                Get(B.buf, B.r), TRUE)

\* Seeded fault: no check for the empty buffer.
Front_NoEmptyCheck(B) == Res(B, Get(B.buf, B.r), TRUE)

Front(B) ==
    IF B.n = 0 THEN Res(B, Zero, FALSE)
    ELSE Res(B, Get(B.buf, B.r), TRUE)

\* Seeded fault: Back removes the element it returns.
Back_Pops(B) == PopBack(B)

Back(B) ==
    IF B.n = 0 THEN Res(B, Zero, FALSE)
    ELSE Res(B, Get(B.buf, GoMod(B.r + B.n - 1, Len(B.buf))), TRUE)

\* Seeded fault: the index is checked against the capacity, not the count.
At_CapBound(B, i) ==
    IF i < 0 \/ i >= Len(B.buf) THEN Res(B, Zero, FALSE)
    ELSE Res(B, Get(B.buf, GoMod(B.r + i, Len(B.buf))), TRUE)

At(B, i) ==
    IF i < 0 \/ i >= B.n THEN Res(B, Zero, FALSE)
    ELSE Res(B, Get(B.buf, GoMod(B.r + i, Len(B.buf))), TRUE)

\* Seeded fault: the index is used as a physical index, without the read
\* position.
Set_IgnoreRead(B, i, v) ==
    IF i < 0 \/ i >= B.n THEN Res(B, Zero, FALSE)
    ELSE Res([B EXCEPT !.buf = Put(B.buf, i, v)], Zero, TRUE)

Set(B, i, v) ==
    IF i < 0 \/ i >= B.n THEN Res(B, Zero, FALSE)
    ELSE Res([B EXCEPT !.buf = Put(B.buf, GoMod(B.r + i, Len(B.buf)), v)], Zero, TRUE)

\* Seeded fault: the loop clears the slots 0..n-1, without the read position.
ClearLoop_NoWrap(B) ==
    [k \in 1..Len(B.buf) |-> IF k - 1 < B.n THEN Zero ELSE B.buf[k]]

\* The loop of Clear: slot (r + i) % c is zeroed for every i < n.
ClearLoop(B) ==
    LET c == Len(B.buf)
    IN [k \in 1..c |->
          IF \E i \in 0..(B.n - 1) : GoMod(B.r + i, c) = k - 1 THEN Zero ELSE B.buf[k]]

Clear(B) == Res([buf |-> ClearLoop(B), r |-> 0, n |-> 0], Zero, TRUE)

ToSlice(B) ==
    LET c == Len(B.buf)
    IN [k \in 1..B.n |-> Get(B.buf, GoMod(B.r + (k - 1), c))]

\* Seeded fault: the elements are copied from the physical slots 0..n-1.
resize_IgnoreRead(B, m) ==
    [buf |-> [k \in 1..m |-> IF k - 1 < B.n /\ k <= Len(B.buf) THEN B.buf[k] ELSE Zero],
     r |-> 0, n |-> B.n]

\* resize(n): a new slice of length m with the first B.n logical elements.
resize(B, m) ==
    LET c == Len(B.buf)
    IN [buf |-> [k \in 1..m |-> IF k - 1 < B.n
                                THEN Get(B.buf, GoMod(B.r + (k - 1), c))
                                ELSE Zero],
        r |-> 0, n |-> B.n]

\* Seeded fault: the equal-capacity case is not short-cut and reallocates.
Resize_NoShortcut(B, m) ==
    Res(resize([B EXCEPT !.n = IF m < B.n THEN m ELSE B.n], m), Zero, TRUE)

\* Seeded fault: shrinking below the count does not truncate the count.
Resize_NoTruncate(B, m) ==
    IF m = Len(B.buf) THEN Res(B, Zero, TRUE)
    ELSE Res(resize(B, m), Zero, TRUE)

\* Seeded fault: the argument is checked after the count was truncated.
Resize_LateCheck(B, m) ==
    IF m = Len(B.buf) THEN Res(B, Zero, TRUE)
    ELSE IF m < 1 THEN Panic([B EXCEPT !.n = IF m < B.n THEN m ELSE B.n])
    ELSE Res(resize([B EXCEPT !.n = IF m < B.n THEN m ELSE B.n], m), Zero, TRUE)

Resize(B, m) ==
    IF m < 1 THEN Panic(B)
    ELSE IF m = Len(B.buf) THEN Res(B, Zero, TRUE)
    ELSE Res(resize([B EXCEPT !.n = IF m < B.n THEN m ELSE B.n], m), Zero, TRUE)

Clone(B) ==
    LET c == Len(B.buf)
    IN [buf |-> [k \in 1..c |-> IF k - 1 < B.n
                                THEN Get(B.buf, GoMod(B.r + (k - 1), c))
                                ELSE Zero],
        r |-> 0, n |-> B.n]

\* ------------------------------------------------------------ iteration
\* The consumer of an iteration (the yield function of All, Values and
\* Backward, the f of Do) is given by the value it stops at: it returns false
\* on that value and true on every other one.  The loops return the calls
\* made to the consumer, one entry per call, in the order of the calls.
Continue(stop, v) == v # stop

RECURSIVE AllLoop(_, _, _, _)
AllLoop(B, i, stop, seen) ==
    IF i < B.n
    THEN LET v == Get(B.buf, GoMod(B.r + i, Len(B.buf)))
         IN IF ~Continue(stop, v) THEN Append(seen, <<i, v>>)
            ELSE AllLoop(B, i + 1, stop, Append(seen, <<i, v>>))
    ELSE seen

\* Seeded fault: the physical slot is yielded as the index.
All_PhysicalIndex(B, stop) ==
    [k \in 1..Len(AllLoop(B, 0, stop, <<>>)) |->
        <<GoMod(B.r + AllLoop(B, 0, stop, <<>>)[k][1], Len(B.buf)),
          AllLoop(B, 0, stop, <<>>)[k][2]>>]

All(B, stop) == AllLoop(B, 0, stop, <<>>)

RECURSIVE ValuesLoop(_, _, _, _)
ValuesLoop(B, i, stop, seen) ==
    IF i < B.n
    THEN LET v == Get(B.buf, GoMod(B.r + i, Len(B.buf)))
         IN IF ~Continue(stop, v) THEN Append(seen, v)
            ELSE ValuesLoop(B, i + 1, stop, Append(seen, v))
    ELSE seen

Values(B, stop) == ValuesLoop(B, 0, stop, <<>>)

RECURSIVE BackwardLoop(_, _, _, _)
BackwardLoop(B, i, stop, seen) ==
    IF i >= 0
    THEN LET v == Get(B.buf, GoMod(B.r + i, Len(B.buf)))
         IN IF ~Continue(stop, v) THEN Append(seen, <<i, v>>)
            ELSE BackwardLoop(B, i - 1, stop, Append(seen, <<i, v>>))
    ELSE seen

\* Seeded fault: the index yielded counts the calls, 0 for the back element.
Backward_ReversedCounter(B, stop) ==
    [k \in 1..Len(BackwardLoop(B, B.n - 1, stop, <<>>)) |->
        <<k - 1, BackwardLoop(B, B.n - 1, stop, <<>>)[k][2]>>]

Backward(B, stop) == BackwardLoop(B, B.n - 1, stop, <<>>)

RECURSIVE DoLoop(_, _, _, _)
DoLoop(B, i, stop, seen) ==
    IF i < B.n
    THEN LET v == Get(B.buf, GoMod(B.r + i, Len(B.buf)))
         IN IF ~Continue(stop, v) THEN Append(seen, v)
            ELSE DoLoop(B, i + 1, stop, Append(seen, v))
    ELSE seen

\* Seeded fault: what f returns is ignored.
Do_IgnoreResult(B, stop) == DoLoop(B, 0, (0 - 1), <<>>)

Do(B, stop) == DoLoop(B, 0, stop, <<>>)

\* ----------------------------------------------------- objects and arrays
\* Seeded fault: the clone is a copy of the struct, slice header included.
CloneOf_StructCopy(B) == [ex |-> TRUE, b |-> B, shared |-> TRUE]

\* The buffer Clone returns has an array of its own (make).
CloneOf(B) == [ex |-> TRUE, b |-> Clone(B), shared |-> FALSE]

\* Seeded fault: the slice returned is b.buf[:b.n], a view of the array.
SliceOf_View(B) == [ex |-> TRUE, arr |-> SubSeq(B.buf, 1, B.n), view |-> TRUE]

\* The slice ToSlice returns has an array of its own (make).
SliceOf(B) == [ex |-> TRUE, arr |-> ToSlice(B), view |-> FALSE]

\* resize is the one place where a buffer gets a new array, and Resize
\* reaches it exactly when the capacity changes.
Realloc(B, nb) == Len(nb.buf) # Len(B.buf)

\* A buffer t that shares the array of B, after a call turned B into nb:
\* writes in place are seen through t, a new array ends the sharing.
TwinAfter(t, B, nb) ==
    IF t.ex /\ t.shared
    THEN IF Realloc(B, nb) THEN [t EXCEPT !.shared = FALSE]
         ELSE [t EXCEPT !.b.buf = nb.buf]
    ELSE t

\* The same for a slice s that is a view of the array of B.
SliceAfter(s, B, nb) ==
    IF s.ex /\ s.view
    THEN IF Realloc(B, nb) THEN [s EXCEPT !.view = FALSE]
         ELSE [s EXCEPT !.arr = SubSeq(nb.buf, 1, Len(s.arr))]
    ELSE s

\* ------------------------------------------------------ indexing by slices
\* What each method indexes when called on B: a set of pairs <<k, l>>, one
\* for every s[k] the call evaluates, l being len(s) at that point.  The
\* index expressions are those of the code, with Go's %.
PushBackIndex(B) ==
    LET c == Len(B.buf)
        full == B.n = c
        r1 == IF full THEN GoMod(B.r + 1, c) ELSE B.r
        n1 == IF full THEN B.n ELSE B.n + 1
    IN {<<GoMod(r1 + n1 - 1, c), c>>}

\* Seeded fault: the read position is stepped back without adding c first.
PushFrontIndex_NoOffset(B) == {<<GoMod(B.r - 1, Len(B.buf)), Len(B.buf)>>}

PushFrontIndex(B) == {<<GoMod(B.r + Len(B.buf) - 1, Len(B.buf)), Len(B.buf)>>}

PopBackIndex(B) ==
    IF B.n = 0 THEN {}
    ELSE {<<GoMod(B.r + B.n - 1, Len(B.buf)), Len(B.buf)>>}

PopFrontIndex(B) == IF B.n = 0 THEN {} ELSE {<<B.r, Len(B.buf)>>}

FrontIndex(B) == IF B.n = 0 THEN {} ELSE {<<B.r, Len(B.buf)>>}

BackIndex(B) ==
    IF B.n = 0 THEN {}
    ELSE {<<GoMod(B.r + B.n - 1, Len(B.buf)), Len(B.buf)>>}

AtIndex(B, i) ==
    IF i < 0 \/ i >= B.n THEN {}
    ELSE {<<GoMod(B.r + i, Len(B.buf)), Len(B.buf)>>}

SetIndex(B, i) ==
    IF i < 0 \/ i >= B.n THEN {}
    ELSE {<<GoMod(B.r + i, Len(B.buf)), Len(B.buf)>>}

\* The loop of Clear, All, Values, Backward and Do: b.buf[(b.r+i)%c], i < b.n.
LoopIndex(B) == {<<GoMod(B.r + i, Len(B.buf)), Len(B.buf)>> : i \in 0..(B.n - 1)}

\* ToSlice also indexes s, of length b.n.
ToSliceIndex(B) == LoopIndex(B) \cup {<<i, B.n>> : i \in 0..(B.n - 1)}

\* Clone also indexes b2.buf, of length c.
CloneIndex(B) == LoopIndex(B) \cup {<<i, Len(B.buf)>> : i \in 0..(B.n - 1)}

\* Resize(m): nothing before the panic or the early return, then resize with
\* the count already cut to m: nb[i] of length m and b.buf[(b.r+i)%c].
ResizeIndex(B, m) ==
    IF m < 1 \/ m = Len(B.buf) THEN {}
    ELSE LET n1 == IF m < B.n THEN m ELSE B.n
         IN {<<i, m>> : i \in 0..(n1 - 1)}
            \cup {<<GoMod(B.r + i, Len(B.buf)), Len(B.buf)>> : i \in 0..(n1 - 1)}

\* The divisors of the % the method evaluates.
Divisors(op, B, i) ==
    IF op \in {"Len", "Cap", "Empty", "Full", "Front"} THEN {}
    ELSE IF op \in {"PopBack", "PopFront", "Back"} /\ B.n = 0 THEN {}
    ELSE IF op \in {"At", "Set"} /\ (i < 0 \/ i >= B.n) THEN {}
    ELSE IF op \in {"Clear", "ToSlice", "Clone", "All", "Values", "Backward", "Do"}
            /\ B.n = 0 THEN {}
    ELSE IF op = "Resize" /\ (i < 1 \/ i = Len(B.buf) \/ B.n = 0) THEN {}
    ELSE {Len(B.buf)}

Indexed(op, B, i) ==
    CASE op = "PushBack" -> PushBackIndex(B)
      [] op = "PushFront" -> PushFrontIndex(B)
      [] op = "PopBack" -> PopBackIndex(B)
      [] op = "PopFront" -> PopFrontIndex(B)
      [] op = "Front" -> FrontIndex(B)
      [] op = "Back" -> BackIndex(B)
      [] op = "At" -> AtIndex(B, i)
      [] op = "Set" -> SetIndex(B, i)
      [] op \in {"Clear", "All", "Values", "Backward", "Do"} -> LoopIndex(B)
      [] op = "ToSlice" -> ToSliceIndex(B)
      [] op = "Clone" -> CloneIndex(B)
      [] op = "Resize" -> ResizeIndex(B, i)
      [] OTHER -> {}

\* ------------------------------------------------ the legacy CircularBuffer
\* CircularBuffer of src/circularbuffer.go: a record [buffer, capacity, shift,
\* size].  Its elements are interface{} values: the ints pushed, and nil,
\* which is none of them.
Nil == 0 - 1

NoLegacy == [buffer |-> <<>>, capacity |-> 0, shift |-> 0, size |-> 0]

NewCircularBuffer(capacity) ==
    [buffer |-> [k \in 1..capacity |-> Nil], capacity |-> capacity, shift |-> 0, size |-> 0]

\* At returns the element and whether the error is nil.
CircularBuffer_At(cb, index) ==
    IF 0 <= index /\ index < cb.size
    THEN [val |-> Get(cb.buffer, GoMod(cb.shift + index, cb.capacity)), ok |-> TRUE]
    ELSE [val |-> Nil, ok |-> FALSE]

Capacity(cb) == cb.capacity
Size(cb) == cb.size
CircularBuffer_Empty(cb) == cb.size = 0
CircularBuffer_Full(cb) == cb.size = cb.capacity

RECURSIVE CircularBuffer_ClearLoop(_, _)
CircularBuffer_ClearLoop(cb, i) ==
    IF i < cb.size
    THEN CircularBuffer_ClearLoop(
             [cb EXCEPT !.buffer = Put(cb.buffer, GoMod(cb.shift + i, cb.capacity), Nil)],
             i + 1)
    ELSE cb

CircularBuffer_Clear(cb) == [CircularBuffer_ClearLoop(cb, 0) EXCEPT !.size = 0]

CircularBuffer_PopBack(cb) ==
    IF ~CircularBuffer_Empty(cb)
    THEN [cb EXCEPT !.buffer = Put(cb.buffer, GoMod(cb.shift + cb.size - 1, cb.capacity), Nil),
                    !.size = cb.size - 1]
    ELSE cb

CircularBuffer_PopFront(cb) ==
    IF ~CircularBuffer_Empty(cb)
    THEN [cb EXCEPT !.buffer = Put(cb.buffer, GoMod(cb.shift, cb.capacity), Nil),
                    !.size = cb.size - 1,
                    !.shift = GoMod(cb.shift + 1, cb.capacity)]
    ELSE cb

CircularBuffer_PushBack(cb, value) ==
    LET c1 == IF CircularBuffer_Full(cb) THEN CircularBuffer_PopFront(cb) ELSE cb
    IN [c1 EXCEPT !.buffer = Put(c1.buffer, GoMod(c1.size + c1.shift, c1.capacity), value),
                  !.size = c1.size + 1]

CircularBuffer_PushFront(cb, value) ==
    LET c1 == IF CircularBuffer_Full(cb) THEN CircularBuffer_PopBack(cb) ELSE cb
        index == GoMod(c1.shift + c1.capacity - 1, c1.capacity)
    IN [c1 EXCEPT !.buffer = Put(c1.buffer, index, value),
                  !.shift = index,
                  !.size = c1.size + 1]

\* swap and revert, the closures of shiftToZero: revert(i, j) reverses the
\* slots i..j-1 in place.
swap(s, i, j) == [s EXCEPT ![i + 1] = s[j + 1], ![j + 1] = s[i + 1]]

RECURSIVE revertLoop(_, _, _, _)
revertLoop(s, i, j, k) ==
    IF k < (i + j) \div 2 THEN revertLoop(swap(s, k, j + i - k - 1), i, j, k + 1)
    ELSE s

revert(s, i, j) == revertLoop(s, i, j, i)

\* Seeded fault: the third reversal, of the whole range, is left out.
shiftToZero_TwoReversals(cb) ==
    [cb EXCEPT !.buffer = revert(revert(cb.buffer, 0, cb.shift), cb.shift, cb.capacity),
               !.shift = 0]

shiftToZero(cb) ==
    [cb EXCEPT !.buffer = revert(revert(revert(cb.buffer, 0, cb.shift),
                                        cb.shift, cb.capacity),
                                 0, cb.capacity),
               !.shift = 0]

\* Resize: the array grows by append when it is shorter than the new
\* capacity and is never shortened.
CircularBuffer_Resize(cb, size) ==
    LET c1 == shiftToZero(cb)
        c2 == IF size > c1.size
              THEN IF Len(c1.buffer) < size
                   THEN [c1 EXCEPT !.buffer =
                             c1.buffer \o [k \in 1..(size - Len(c1.buffer)) |-> Nil]]
                   ELSE c1
              ELSE [c1 EXCEPT !.size = size]
    IN [c2 EXCEPT !.capacity = size]

ToArray(cb) == [k \in 1..cb.size |-> CircularBuffer_At(cb, k - 1).val]

\* ------------------------------------------------- the reference deque
\* A sequence of at most cap elements, front first, with the value and flag
\* its last pop returned.
AbsNew(c) == [s |-> <<>>, cap |-> c, val |-> Zero, ok |-> FALSE]

AbsKeep(A) == [A EXCEPT !.val = Zero, !.ok = FALSE]

AbsPushBack(A, v) ==
    [AbsKeep(A) EXCEPT !.s = IF Len(A.s) = A.cap THEN Append(Tail(A.s), v)
                              ELSE Append(A.s, v)]

AbsPushFront(A, v) ==
    [AbsKeep(A) EXCEPT !.s = IF Len(A.s) = A.cap
                              THEN <<v>> \o SubSeq(A.s, 1, Len(A.s) - 1)
                              ELSE <<v>> \o A.s]

AbsPopFront(A) ==
    IF A.s = <<>> THEN AbsKeep(A)
    ELSE [A EXCEPT !.s = Tail(A.s), !.val = Head(A.s), !.ok = TRUE]

AbsPopBack(A) ==
    IF A.s = <<>> THEN AbsKeep(A)
    ELSE [A EXCEPT !.s = SubSeq(A.s, 1, Len(A.s) - 1), !.val = A.s[Len(A.s)], !.ok = TRUE]

AbsSet(A, i, v) ==
    IF 0 <= i /\ i < Len(A.s) THEN [AbsKeep(A) EXCEPT !.s = [A.s EXCEPT ![i + 1] = v]]
    ELSE AbsKeep(A)

AbsClear(A) == [AbsKeep(A) EXCEPT !.s = <<>>]

AbsResize(A, m) ==
    [AbsKeep(A) EXCEPT !.cap = m,
                       !.s = SubSeq(A.s, 1, IF m < Len(A.s) THEN m ELSE Len(A.s))]

\* ------------------------------------------------------------- the state
Cur == [buf |-> buf, r |-> r, n |-> n]

NoPair == [st |-> "none", end |-> "none", v |-> Zero, pre |-> NoBuf]
NoRun == [end |-> "none", vals |-> <<>>, flags |-> <<>>]

Pushes == {"PushBack", "PushFront"}
PopOf(push) == IF push = "PushBack" THEN "PopBack" ELSE "PopFront"

\* The pushes at one end since the buffer was empty, with the flag each returned.
RunAfter(op, v, ok) ==
    IF op \notin Pushes THEN NoRun
    ELSE IF n = 0 THEN [end |-> op, vals |-> <<v>>, flags |-> <<ok>>]
    ELSE IF run.end = op /\ Len(run.vals) < MaxPush
         THEN [run EXCEPT !.vals = Append(run.vals, v), !.flags = Append(run.flags, ok)]
    ELSE NoRun

\* A push on a non-full buffer, then the pop at the same end right after it.
PairAfter(op, v) ==
    IF op \in Pushes /\ ~Full(Cur) THEN [st |-> "pushed", end |-> op, v |-> v, pre |-> Cur]
    ELSE IF pair.st = "pushed" /\ op = PopOf(pair.end) THEN [pair EXCEPT !.st = "popped"]
    ELSE NoPair

\* Nothing returned by Clone or ToSlice yet.  twin is the buffer Clone
\* returned and slice the slice ToSlice returned: shared and view say that
\* its array is the array of the buffer under test.  on, other and orig
\* record the last step: which object it was on, the other buffer as it was
\* before the step, and the slice as ToSlice returned it.
NoHeap ==
    [twin |-> [ex |-> FALSE, b |-> NoBuf, shared |-> FALSE],
     slice |-> [ex |-> FALSE, arr |-> <<>>, view |-> FALSE],
     on |-> "none", other |-> NoBuf, orig |-> <<>>]

\* One call: the method's result becomes the buffer, the call is recorded.
Apply(op, i, v, res, out, cl, absn) ==
    /\ buf' = res.b.buf
    /\ r' = res.b.r
    /\ n' = res.b.n
    /\ last' = [op |-> op, i |-> i, v |-> v, val |-> res.val, ok |-> res.ok,
                out |-> out, cl |-> cl, panic |-> res.panic]
    /\ prev' = Cur
    /\ abs' = absn
    /\ pair' = PairAfter(op, v)
    /\ run' = RunAfter(op, v, res.ok)
    /\ UNCHANGED <<heap, legacy>>

Init ==
    \E c \in Caps :
        /\ buf = New(c).b.buf
        /\ r = New(c).b.r
        /\ n = New(c).b.n
        /\ last = [op |-> "New", i |-> c, v |-> Zero, val |-> Zero, ok |-> TRUE,
                   out |-> <<>>, cl |-> NoBuf, panic |-> New(c).panic]
        /\ prev = New(c).b
        /\ abs = AbsNew(c)
        /\ pair = NoPair
        /\ run = NoRun
        /\ clock = 0
        /\ heap = NoHeap
        /\ legacy = NoLegacy

StepPushBack(v) == Apply("PushBack", 0, v, PushBack(Cur, v), <<>>, NoBuf, AbsPushBack(abs, v))
StepPushFront(v) == Apply("PushFront", 0, v, PushFront(Cur, v), <<>>, NoBuf, AbsPushFront(abs, v))
StepSet(i, v) == Apply("Set", i, v, Set(Cur, i, v), <<>>, NoBuf, AbsSet(abs, i, v))

CallPushBack == \E v \in Vals : StepPushBack(v) /\ UNCHANGED clock
CallPushFront == \E v \in Vals : StepPushFront(v) /\ UNCHANGED clock
CallPopBack ==
    Apply("PopBack", 0, Zero, PopBack(Cur), <<>>, NoBuf, AbsPopBack(abs)) /\ UNCHANGED clock
CallPopFront ==
    Apply("PopFront", 0, Zero, PopFront(Cur), <<>>, NoBuf, AbsPopFront(abs)) /\ UNCHANGED clock
CallFront ==
    Apply("Front", 0, Zero, Front(Cur), <<>>, NoBuf, AbsKeep(abs)) /\ UNCHANGED clock
CallBack ==
    Apply("Back", 0, Zero, Back(Cur), <<>>, NoBuf, AbsKeep(abs)) /\ UNCHANGED clock
CallAt ==
    \E i \in Indices :
        Apply("At", i, Zero, At(Cur, i), <<>>, NoBuf, AbsKeep(abs)) /\ UNCHANGED clock
CallSet == \E i \in Indices, v \in Vals : StepSet(i, v) /\ UNCHANGED clock
CallClear ==
    Apply("Clear", 0, Zero, Clear(Cur), <<>>, NoBuf, AbsClear(abs)) /\ UNCHANGED clock
CallResize ==
    \E m \in Caps :
        Apply("Resize", m, Zero, Resize(Cur, m), <<>>, NoBuf, AbsResize(abs, m))
        /\ UNCHANGED clock
CallToSlice ==
    Apply("ToSlice", 0, Zero, Res(Cur, Zero, TRUE), ToSlice(Cur), NoBuf, AbsKeep(abs))
    /\ UNCHANGED clock
CallClone ==
    Apply("Clone", 0, Zero, Res(Cur, Zero, TRUE), <<>>, Clone(Cur), AbsKeep(abs))
    /\ UNCHANGED clock

Next ==
    \/ CallPushBack
    \/ CallPushFront
    \/ CallPopBack
    \/ CallPopFront
    \/ CallFront
    \/ CallBack
    \/ CallAt
    \/ CallSet
    \/ CallClear
    \/ CallResize
    \/ CallToSlice
    \/ CallClone

Spec == Init /\ [][Next]_vars

\* --------------------------------------------------- stamped-value runs
\* The same methods driven with values that tell when and how they were
\* inserted: the k-th inserted value is 10 * k + via, with via 1 for PushBack,
\* 2 for PushFront and 3 for Set.  No stamp is the zero value.
Tag(id, via) == 10 * id + via
IdOf(x) == x \div 10
ViaOf(x) == x % 10

AgePushBack == clock < MaxClock /\ StepPushBack(Tag(clock + 1, 1)) /\ clock' = clock + 1
AgePushFront == clock < MaxClock /\ StepPushFront(Tag(clock + 1, 2)) /\ clock' = clock + 1
AgeSet ==
    /\ clock < MaxClock
    /\ \E i \in 0..(MaxCap - 1) : StepSet(i, Tag(clock + 1, 3))
    /\ clock' = clock + 1

NextAge ==
    \/ AgePushBack
    \/ AgePushFront
    \/ AgeSet
    \/ CallPopBack
    \/ CallPopFront
    \/ CallClear
    \/ CallResize

SpecAge == Init /\ [][NextAge]_vars

\* ------------------------------------------------ calls without a record
\* A mutating call of which only the effect on the buffer is kept.
QuietCall ==
    [op |-> "quiet", i |-> 0, v |-> Zero, val |-> Zero, ok |-> TRUE,
     out |-> <<>>, cl |-> NoBuf, panic |-> FALSE]

\* After a New that panicked there is no buffer to call a method on.
HasBuffer == ~(last.op = "New" /\ last.panic)

Quiet(res) ==
    /\ HasBuffer
    /\ buf' = res.b.buf
    /\ r' = res.b.r
    /\ n' = res.b.n
    /\ last' = QuietCall
    /\ prev' = res.b
    /\ UNCHANGED <<abs, pair, run, clock, heap, legacy>>

QuietMutate ==
    \/ \E v \in Vals : Quiet(PushBack(Cur, v))
    \/ \E v \in Vals : Quiet(PushFront(Cur, v))
    \/ Quiet(PopBack(Cur))
    \/ Quiet(PopFront(Cur))
    \/ \E i \in 0..(MaxCap - 1), v \in Vals : Quiet(Set(Cur, i, v))
    \/ Quiet(Clear(Cur))
    \/ \E m \in Caps : Quiet(Resize(Cur, m))

\* ------------------------------------------------------ iteration calls
\* A consumer stops at one of the element values or, with -1, at none.
Stops == (0 - 1)..MaxVal

CallAll ==
    \E stop \in Stops :
        Apply("All", 0, stop, Res(Cur, Zero, TRUE), All(Cur, stop), NoBuf, AbsKeep(abs))
        /\ UNCHANGED clock
CallValues ==
    \E stop \in Stops :
        Apply("Values", 0, stop, Res(Cur, Zero, TRUE), Values(Cur, stop), NoBuf, AbsKeep(abs))
        /\ UNCHANGED clock
CallBackward ==
    \E stop \in Stops :
        Apply("Backward", 0, stop, Res(Cur, Zero, TRUE), Backward(Cur, stop), NoBuf,
              AbsKeep(abs))
        /\ UNCHANGED clock
CallDo ==
    \E stop \in Stops :
        Apply("Do", 0, stop, Res(Cur, Zero, TRUE), Do(Cur, stop), NoBuf, AbsKeep(abs))
        /\ UNCHANGED clock

NextIter ==
    \/ QuietMutate
    \/ CallAll
    \/ CallValues
    \/ CallBackward
    \/ CallDo

SpecIter == Init /\ [][NextIter]_vars

\* ------------------------------------------------- two objects at a time
\* The buffer under test (the source), the buffer Clone returned and the
\* slice ToSlice returned, with the methods called on either buffer.
InitHeap ==
    \E c \in HeapCaps :
        /\ buf = New(c).b.buf
        /\ r = New(c).b.r
        /\ n = New(c).b.n
        /\ last = [op |-> "New", i |-> c, v |-> Zero, val |-> Zero, ok |-> TRUE,
                   out |-> <<>>, cl |-> NoBuf, panic |-> New(c).panic]
        /\ prev = New(c).b
        /\ abs = AbsNew(c)
        /\ pair = NoPair
        /\ run = NoRun
        /\ clock = 0
        /\ heap = NoHeap
        /\ legacy = NoLegacy

\* A mutating call on the source.
OnSource(res) ==
    /\ buf' = res.b.buf
    /\ r' = res.b.r
    /\ n' = res.b.n
    /\ heap' = [heap EXCEPT !.twin = TwinAfter(heap.twin, Cur, res.b),
                            !.slice = SliceAfter(heap.slice, Cur, res.b),
                            !.on = "source",
                            !.other = heap.twin.b]
    /\ UNCHANGED <<last, prev, abs, pair, run, clock, legacy>>

\* A mutating call on the buffer Clone returned.
OnClone(res) ==
    /\ heap.twin.ex
    /\ buf' = IF heap.twin.shared /\ ~Realloc(heap.twin.b, res.b) THEN res.b.buf ELSE buf
    /\ heap' = [heap EXCEPT !.twin = [ex |-> TRUE, b |-> res.b,
                                      shared |-> heap.twin.shared
                                                 /\ ~Realloc(heap.twin.b, res.b)],
                            !.slice = IF heap.twin.shared
                                      THEN SliceAfter(heap.slice, heap.twin.b, res.b)
                                      ELSE heap.slice,
                            !.on = "clone",
                            !.other = Cur]
    /\ UNCHANGED <<r, n, last, prev, abs, pair, run, clock, legacy>>

MutateSource ==
    \/ \E v \in HeapVals : OnSource(PushBack(Cur, v))
    \/ \E v \in HeapVals : OnSource(PushFront(Cur, v))
    \/ OnSource(PopBack(Cur))
    \/ OnSource(PopFront(Cur))
    \/ \E i \in 0..(MaxHeapCap - 1), v \in HeapVals : OnSource(Set(Cur, i, v))
    \/ OnSource(Clear(Cur))
    \/ \E m \in HeapCaps : OnSource(Resize(Cur, m))

MutateClone ==
    \/ \E v \in HeapVals : OnClone(PushBack(heap.twin.b, v))
    \/ \E v \in HeapVals : OnClone(PushFront(heap.twin.b, v))
    \/ OnClone(PopBack(heap.twin.b))
    \/ OnClone(PopFront(heap.twin.b))
    \/ \E i \in 0..(MaxHeapCap - 1), v \in HeapVals : OnClone(Set(heap.twin.b, i, v))
    \/ OnClone(Clear(heap.twin.b))
    \/ \E m \in HeapCaps : OnClone(Resize(heap.twin.b, m))

HeapClone ==
    /\ heap' = [heap EXCEPT !.twin = CloneOf(Cur), !.on = "cloned", !.other = Cur]
    /\ UNCHANGED <<buf, r, n, last, prev, abs, pair, run, clock, legacy>>

HeapToSlice ==
    /\ heap' = [heap EXCEPT !.slice = SliceOf(Cur), !.on = "sliced",
                            !.orig = SliceOf(Cur).arr]
    /\ UNCHANGED <<buf, r, n, last, prev, abs, pair, run, clock, legacy>>

NextClone == MutateSource \/ MutateClone \/ HeapClone

SpecClone == InitHeap /\ [][NextClone]_vars

NextSlice == MutateSource \/ HeapToSlice

SpecSlice == InitHeap /\ [][NextSlice]_vars

\* --------------------------------------------------------- reading calls
\* The four accessors return a value computed from the fields and assign
\* nothing.
CallLen ==
    Apply("Len", 0, Zero, Res(Cur, Len_(Cur), TRUE), <<>>, NoBuf, AbsKeep(abs))
    /\ UNCHANGED clock
CallCap ==
    Apply("Cap", 0, Zero, Res(Cur, Cap(Cur), TRUE), <<>>, NoBuf, AbsKeep(abs))
    /\ UNCHANGED clock
CallEmpty ==
    Apply("Empty", 0, Zero, Res(Cur, Zero, Empty(Cur)), <<>>, NoBuf, AbsKeep(abs))
    /\ UNCHANGED clock
CallFull ==
    Apply("Full", 0, Zero, Res(Cur, Zero, Full(Cur)), <<>>, NoBuf, AbsKeep(abs))
    /\ UNCHANGED clock

\* Every method that reads, called in any state the mutating methods reach.
NextRead ==
    \/ QuietMutate
    \/ CallLen
    \/ CallCap
    \/ CallEmpty
    \/ CallFull
    \/ CallAt
    \/ CallFront
    \/ CallBack
    \/ CallToSlice
    \/ CallClone
    \/ CallAll
    \/ CallValues
    \/ CallBackward
    \/ CallDo

SpecRead == Init /\ [][NextRead]_vars

\* ------------------------------------------------- both buffers, same calls
\* New(c) and NewCircularBuffer(c), then every call made on both.
InitBoth ==
    \E c \in Caps :
        /\ buf = New(c).b.buf
        /\ r = New(c).b.r
        /\ n = New(c).b.n
        /\ last = [op |-> "New", i |-> c, v |-> Zero, val |-> Zero, ok |-> TRUE,
                   out |-> <<>>, cl |-> NoBuf, panic |-> New(c).panic]
        /\ prev = New(c).b
        /\ abs = AbsNew(c)
        /\ pair = NoPair
        /\ run = NoRun
        /\ clock = 0
        /\ heap = NoHeap
        /\ legacy = NewCircularBuffer(c)

Both(op, i, res, cbn) ==
    /\ buf' = res.b.buf
    /\ r' = res.b.r
    /\ n' = res.b.n
    /\ legacy' = cbn
    /\ last' = [QuietCall EXCEPT !.op = op, !.i = i]
    /\ prev' = Cur
    /\ UNCHANGED <<abs, pair, run, clock, heap>>

BothPushBack ==
    \E v \in HeapVals : Both("PushBack", 0, PushBack(Cur, v), CircularBuffer_PushBack(legacy, v))
BothPushFront ==
    \E v \in HeapVals : Both("PushFront", 0, PushFront(Cur, v), CircularBuffer_PushFront(legacy, v))
BothPopBack == Both("PopBack", 0, PopBack(Cur), CircularBuffer_PopBack(legacy))
BothPopFront == Both("PopFront", 0, PopFront(Cur), CircularBuffer_PopFront(legacy))
BothClear == Both("Clear", 0, Clear(Cur), CircularBuffer_Clear(legacy))
BothResize ==
    \E m \in Caps : Both("Resize", m, Resize(Cur, m), CircularBuffer_Resize(legacy, m))

NextBoth ==
    \/ BothPushBack
    \/ BothPushFront
    \/ BothPopBack
    \/ BothPopFront
    \/ BothClear
    \/ BothResize

SpecBoth == InitBoth /\ [][NextBoth]_vars

\* ------------------------------------------------- contract violations
\* New and Resize called with any capacity, those below 1 included.  After a
\* New that panicked there is no buffer and nothing can be called.
InitFault ==
    \E c \in (0 - 1)..MaxCap :
        /\ buf = New(c).b.buf
        /\ r = New(c).b.r
        /\ n = New(c).b.n
        /\ last = [op |-> "New", i |-> c, v |-> Zero, val |-> Zero, ok |-> TRUE,
                   out |-> <<>>, cl |-> NoBuf, panic |-> New(c).panic]
        /\ prev = New(c).b
        /\ abs = AbsNew(c)
        /\ pair = NoPair
        /\ run = NoRun
        /\ clock = 0
        /\ heap = NoHeap
        /\ legacy = NoLegacy

CallResizeAny ==
    \E m \in (0 - 1)..MaxCap :
        HasBuffer /\ Apply("Resize", m, Zero, Resize(Cur, m), <<>>, NoBuf, AbsKeep(abs))
        /\ UNCHANGED clock

NextFault == QuietMutate \/ CallResizeAny

SpecFault == InitFault /\ [][NextFault]_vars

\* ------------------------------------------------------------ the claims
Pops == {"PopBack", "PopFront"}
Min(a, b) == IF a < b THEN a ELSE b
LastK(s, k) == SubSeq(s, Len(s) - k + 1, Len(s))
Reverse(s) == [k \in 1..Len(s) |-> s[Len(s) + 1 - k]]
InBounds(B, i) == 0 <= i /\ i < B.n
\* The physical slots (0-based) the live range (r + i) mod C, i < n, covers.
LiveSlots(B) == {(B.r + i) % Len(B.buf) : i \in 0..(B.n - 1)}
\* The values the buffer holds.
Live(B) == {ToSlice(B)[k] : k \in 1..B.n}

\* C1: the buffer refines the bounded deque: after any sequence of calls its
\* logical content (ToSlice, and At(0..Len()-1)) is the reference deque's
\* sequence, Cap() is the capacity given to New or the last Resize, and each
\* pop returned the value and flag the reference deque's pop returned.
C1_Refines ==
    /\ ToSlice(Cur) = abs.s
    /\ Len_(Cur) = Len(abs.s)
    /\ Cap(Cur) = abs.cap
    /\ \A i \in 0..(Len(abs.s) - 1) : At(Cur, i).ok /\ At(Cur, i).val = abs.s[i + 1]
    /\ last.op \in Pops => last.val = abs.val /\ last.ok = abs.ok

C1_Witness ==
    /\ last.op = "PopBack"
    /\ last.ok
    /\ last.val # Zero
    /\ n >= 2
    /\ r + n > Len(buf)

\* C2: after k pushes at one end of an empty buffer of capacity C and nothing
\* else, ToSlice() is the last min(k, C) pushed values, in push order for
\* PushBack and reversed for PushFront, and the j-th push returned the
\* overwritten flag exactly when j > C.
C2_PushRun ==
    run.end # "none" =>
        LET k == Len(run.vals)
            keep == LastK(run.vals, Min(k, Cap(Cur)))
        IN /\ ToSlice(Cur) = IF run.end = "PushBack" THEN keep ELSE Reverse(keep)
           /\ \A j \in 1..k : run.flags[j] = (j > Cap(Cur))

C2_Witness ==
    /\ run.end = "PushFront"
    /\ Cap(Cur) >= 2
    /\ Len(run.vals) > Cap(Cur) + 1
    /\ run.vals[Len(run.vals)] # run.vals[Len(run.vals) - 1]

\* C3 as stated: on every full buffer, capacity 1 included, PushBack(v)
\* returns the overwrite flag, Front() is then the element that was at
\* logical index 1 and Back() is v.
C3_AsStated ==
    (last.op = "PushBack" /\ Full(prev)) =>
        /\ last.ok
        /\ At(prev, 1).ok
        /\ Front(Cur).ok /\ Front(Cur).val = At(prev, 1).val
        /\ Back(Cur).ok /\ Back(Cur).val = last.v

\* C3: on a full buffer PushBack(v) returns the overwrite flag and Back() is
\* then v; with capacity at least 2 Front() is the element that was at
\* logical index 1, with capacity 1 (no index 1) Front() is v.
C3_PushBackFull ==
    (last.op = "PushBack" /\ Full(prev)) =>
        /\ last.ok
        /\ Back(Cur).ok /\ Back(Cur).val = last.v
        /\ Front(Cur).ok
        /\ IF Cap(prev) >= 2
           THEN At(prev, 1).ok /\ Front(Cur).val = At(prev, 1).val
           ELSE ~At(prev, 1).ok /\ Front(Cur).val = last.v

C3_Witness ==
    /\ last.op = "PushBack"
    /\ Full(prev)
    /\ Cap(prev) >= 2
    /\ prev.r > 0
    /\ At(prev, 1).val # At(prev, 0).val
    /\ At(prev, 1).val # last.v

\* C4 as stated: on every full buffer, capacity 1 included, PushFront(v)
\* returns the overwrite flag, Front() is then v and Back() is the element
\* that was at logical index Len()-2.
C4_AsStated ==
    (last.op = "PushFront" /\ Full(prev)) =>
        /\ last.ok
        /\ Front(Cur).ok /\ Front(Cur).val = last.v
        /\ At(prev, prev.n - 2).ok
        /\ Back(Cur).ok /\ Back(Cur).val = At(prev, prev.n - 2).val

\* C4: on a full buffer PushFront(v) returns the overwrite flag and Front()
\* is then v; with capacity at least 2 Back() is the element that was at
\* logical index Len()-2, with capacity 1 (no such index) Back() is v.
C4_PushFrontFull ==
    (last.op = "PushFront" /\ Full(prev)) =>
        /\ last.ok
        /\ Front(Cur).ok /\ Front(Cur).val = last.v
        /\ Back(Cur).ok
        /\ IF Cap(prev) >= 2
           THEN At(prev, prev.n - 2).ok /\ Back(Cur).val = At(prev, prev.n - 2).val
           ELSE ~At(prev, prev.n - 2).ok /\ Back(Cur).val = last.v

C4_Witness ==
    /\ last.op = "PushFront"
    /\ Full(prev)
    /\ Cap(prev) >= 2
    /\ prev.r > 0
    /\ At(prev, prev.n - 2).val # At(prev, prev.n - 1).val
    /\ At(prev, prev.n - 2).val # last.v

\* The element a push on a full buffer removed, and the earliest inserted
\* element of a buffer of stamped values.
Evicted == Live(prev) \ Live(Cur)
Oldest(B) == CHOOSE x \in Live(B) : \A y \in Live(B) : IdOf(x) <= IdOf(y)

WellFormed(B) ==
    /\ Len(B.buf) >= 1
    /\ 0 <= B.r /\ B.r < Len(B.buf)
    /\ 0 <= B.n /\ B.n <= Len(B.buf)

\* C6: in every reachable state the capacity is at least 1, 0 <= read < C and
\* 0 <= count <= C, so 0 <= Len() <= Cap(); the same holds of a clone.
C6_Bounds ==
    /\ WellFormed(Cur)
    /\ 0 <= Len_(Cur) /\ Len_(Cur) <= Cap(Cur)
    /\ last.op = "Clone" => WellFormed(last.cl)

C6_Witness ==
    /\ last.op = "Resize"
    /\ last.i < prev.n
    /\ prev.r > 0
    /\ n = Len(buf)

\* Every slot outside the live range holds the zero value.
Hygienic(B) ==
    \A k \in 0..(Len(B.buf) - 1) : k \notin LiveSlots(B) => Get(B.buf, k) = Zero

\* C7: slot hygiene: in every reachable state every physical slot that is not
\* (read + i) mod C for some i in [0, count) holds the zero value.
C7_SlotHygiene ==
    /\ Hygienic(Cur)
    /\ last.op = "Clone" => Hygienic(last.cl)

C7_Witness ==
    /\ last.op = "PopBack"
    /\ last.ok
    /\ last.val # Zero
    /\ prev.r + prev.n > Len(prev.buf)
    /\ n >= 1

\* C8: a push on a non-full buffer directly followed by the pop at the same
\* end returns the pushed value with a true flag and restores read, count
\* and every slot.
C8_PushPopRestores ==
    pair.st = "popped" =>
        /\ last.ok
        /\ last.val = pair.v
        /\ Cur = pair.pre

C8_Witness ==
    /\ pair.st = "popped"
    /\ pair.end = "PushFront"
    /\ pair.v # Zero
    /\ pair.pre.r = 0
    /\ pair.pre.n >= 1

\* C9: on an empty buffer PopFront, PopBack, Front and Back return the zero
\* value with a false flag and leave read, count, capacity and every slot
\* unchanged.
C9_EmptyAbsent ==
    (last.op \in {"PopFront", "PopBack", "Front", "Back"} /\ prev.n = 0) =>
        /\ last.val = Zero
        /\ ~last.ok
        /\ Cur = prev

C9_Witness ==
    /\ last.op = "PopBack"
    /\ prev.n = 0
    /\ prev.r > 0

\* C10: At(i) returns the value of physical slot (read + i) mod C with a true
\* flag exactly when 0 <= i < Len(); for any other i At(i) returns the zero
\* value and false, and Set(i, v) returns false and changes nothing, also
\* when i < Cap().
C10_IndexBounds ==
    /\ last.op = "At" =>
           /\ last.ok = InBounds(prev, last.i)
           /\ last.ok => last.val = prev.buf[((prev.r + last.i) % Len(prev.buf)) + 1]
           /\ ~last.ok => last.val = Zero
    /\ (last.op = "Set" /\ ~InBounds(prev, last.i)) =>
           /\ ~last.ok
           /\ Cur = prev

C10_Witness ==
    /\ last.op = "Set"
    /\ last.i >= prev.n
    /\ last.i < Cap(prev)
    /\ last.v # Zero
    /\ prev.n >= 1

\* C11: for 0 <= i < Len(), wrapped states included, Set(i, v) returns true,
\* At(i) is then (v, true), and count, read, capacity and the value at every
\* other logical index are unchanged.
C11_SetInRange ==
    (last.op = "Set" /\ InBounds(prev, last.i)) =>
        /\ last.ok
        /\ At(Cur, last.i).ok /\ At(Cur, last.i).val = last.v
        /\ n = prev.n
        /\ r = prev.r
        /\ Cap(Cur) = Cap(prev)
        /\ \A j \in 0..(prev.n - 1) :
               j # last.i => At(Cur, j).ok /\ At(Cur, j).val = At(prev, j).val

C11_Witness ==
    /\ last.op = "Set"
    /\ InBounds(prev, last.i)
    /\ prev.r > 0
    /\ prev.r + last.i >= Cap(prev)
    /\ prev.n >= 2
    /\ last.v # At(prev, last.i).val

\* C12: for n >= 1 other than Cap(), Resize(n) yields Cap() = n and
\* Len() = min(old Len(), n), keeps the logical elements [0, new Len()) in
\* order (the back ones are the ones discarded), and leaves read = 0 with the
\* elements at the physical positions [0, count) and the zero value at
\* [count, n).
C12_Resize ==
    (last.op = "Resize" /\ last.i >= 1 /\ last.i # Cap(prev)) =>
        /\ Cap(Cur) = last.i
        /\ Len_(Cur) = Min(prev.n, last.i)
        /\ r = 0
        /\ \A k \in 0..(n - 1) :
               /\ At(Cur, k).ok /\ At(Cur, k).val = At(prev, k).val
               /\ Get(buf, k) = At(prev, k).val
        /\ \A k \in n..(last.i - 1) : Get(buf, k) = Zero

C12_Witness ==
    /\ last.op = "Resize"
    /\ last.i >= 2
    /\ last.i < prev.n
    /\ prev.r > 0
    /\ At(prev, 0).val # At(prev, 1).val
    /\ At(prev, prev.n - 1).val # Zero

\* C13: Resize(Cap()) is a no-op: read (also when not 0), count, capacity
\* and every slot are unchanged.
C13_ResizeSame ==
    (last.op = "Resize" /\ last.i = Cap(prev)) => Cur = prev

C13_Witness ==
    /\ last.op = "Resize"
    /\ last.i = Cap(prev)
    /\ prev.r > 0
    /\ prev.n >= 1

\* C16: Clear() yields Empty() (Len() = 0), leaves Cap() unchanged, sets read
\* to 0 and leaves every physical slot holding the zero value, also when the
\* live range wrapped around the end of the backing store.
C16_Clear ==
    last.op = "Clear" =>
        /\ Empty(Cur)
        /\ Len_(Cur) = 0
        /\ Cap(Cur) = Cap(prev)
        /\ r = 0
        /\ \A k \in 0..(Cap(Cur) - 1) : Get(buf, k) = Zero

C16_Witness ==
    /\ last.op = "Clear"
    /\ prev.n >= 2
    /\ prev.r + prev.n > Cap(prev)
    /\ \A k \in 0..(prev.n - 1) : At(prev, k).val # Zero

\* C14: New(c) with c < 1 and Resize(n) with n < 1 end in a panic, and only
\* those do; the New returns no buffer and the Resize leaves read, count,
\* slots and capacity as they were before the call.
C14_ContractViolation ==
    /\ last.op = "New" =>
           /\ last.panic = (last.i < 1)
           /\ last.panic => Cur = NoBuf
           /\ ~last.panic => Cap(Cur) = last.i
    /\ last.op = "Resize" =>
           /\ last.panic = (last.i < 1)
           /\ last.panic => Cur = prev

C14_Witness ==
    /\ last.op = "Resize"
    /\ last.panic
    /\ last.i < prev.n
    /\ prev.r > 0

\* The logical indices at which the consumer of the last call returns false.
StopsAt == {j \in 0..(prev.n - 1) : At(prev, j).val = last.v}
FirstStop == CHOOSE j \in StopsAt : \A k \in StopsAt : j <= k

\* C18: a full traversal of All() yields exactly Len() pairs, the k-th being
\* (k, value of At(k)), and Values() yields the same values in the same order.
C18_AllValues ==
    /\ (last.op = "All" /\ StopsAt = {}) =>
           /\ Len(last.out) = Len_(prev)
           /\ \A k \in 0..(prev.n - 1) : last.out[k + 1] = <<k, At(prev, k).val>>
    /\ (last.op = "Values" /\ StopsAt = {}) =>
           /\ Len(last.out) = Len(All(prev, last.v))
           /\ \A k \in 1..Len(last.out) : last.out[k] = All(prev, last.v)[k][2]

C18_Witness ==
    /\ last.op = "All"
    /\ StopsAt = {}
    /\ prev.n >= 2
    /\ prev.r + prev.n > Cap(prev)
    /\ At(prev, 0).val # At(prev, 1).val

\* C19: a full traversal of Backward() yields exactly Len() pairs, the k-th
\* being (Len()-1-k, value of At(Len()-1-k)): the index is the front-based
\* logical index, decreasing.
C19_Backward ==
    (last.op = "Backward" /\ StopsAt = {}) =>
        /\ Len(last.out) = Len_(prev)
        /\ \A k \in 0..(prev.n - 1) :
               last.out[k + 1] = <<prev.n - 1 - k, At(prev, prev.n - 1 - k).val>>

C19_Witness ==
    /\ last.op = "Backward"
    /\ StopsAt = {}
    /\ prev.n >= 2
    /\ prev.r + prev.n > Cap(prev)
    /\ At(prev, 0).val # At(prev, prev.n - 1).val

\* C20: Do(f) calls f on the elements in front-to-back order; when f first
\* returns false at logical index j it was called on exactly the elements
\* 0..j and on none after j; when f never returns false it is called Len()
\* times.
C20_Do ==
    last.op = "Do" =>
        LET calls == IF StopsAt = {} THEN prev.n ELSE FirstStop + 1
        IN /\ Len(last.out) = calls
           /\ \A k \in 0..(calls - 1) : last.out[k + 1] = At(prev, k).val

C20_Witness ==
    /\ last.op = "Do"
    /\ StopsAt # {}
    /\ FirstStop >= 1
    /\ FirstStop < prev.n - 1
    /\ prev.r > 0

\* C15: Clone() returns a buffer with the same Cap() and the same logical
\* elements in the same order as the source, and every later mutating call
\* (push, pop, Set, Clear, Resize) on either of the two buffers leaves the
\* other one's read position, count, capacity and slots as they were.
C15_CloneIndependent ==
    /\ heap.on = "cloned" =>
           /\ Cap(heap.twin.b) = Cap(Cur)
           /\ Len_(heap.twin.b) = Len_(Cur)
           /\ ToSlice(heap.twin.b) = ToSlice(Cur)
    /\ (heap.on = "source" /\ heap.twin.ex) => heap.twin.b = heap.other
    /\ heap.on = "clone" => Cur = heap.other

C15_Witness ==
    /\ heap.on = "clone"
    /\ Cap(Cur) = 2
    /\ Cap(heap.twin.b) = 2
    /\ Len_(Cur) = 2
    /\ r = 1
    /\ ToSlice(heap.twin.b) # ToSlice(Cur)
    /\ Len_(heap.twin.b) = 2

\* C17: ToSlice() returns a sequence of length Len() whose k-th element is
\* the value of At(k) for every k in [0, Len()), and calls on the buffer
\* after it do not change the sequence returned.
C17_ToSlice ==
    /\ heap.on = "sliced" =>
           /\ Len(heap.slice.arr) = Len_(Cur)
           /\ \A k \in 0..(n - 1) : At(Cur, k).ok /\ Get(heap.slice.arr, k) = At(Cur, k).val
    /\ heap.slice.ex => heap.slice.arr = heap.orig

C17_Witness ==
    /\ heap.slice.ex
    /\ heap.on = "source"
    /\ Len(heap.slice.arr) = 2
    /\ Cap(Cur) = 2
    /\ Len_(Cur) = 2
    /\ ToSlice(Cur) # heap.slice.arr

\* The methods that read.
ReadOps ==
    {"Len", "Cap", "Empty", "Full", "At", "Front", "Back", "ToSlice", "Clone",
     "All", "Values", "Backward", "Do"}

\* C21: no reading method changes the buffer: Len, Cap, Empty, Full, At,
\* Front, Back, ToSlice, Clone, and All, Values, Backward and Do, traversed
\* to the end or stopped by the consumer, leave the read position, the
\* count, the capacity and every slot as they were.
C21_ReadOnly ==
    last.op \in ReadOps =>
        /\ r = prev.r
        /\ n = prev.n
        /\ Cap(Cur) = Cap(prev)
        /\ buf = prev.buf

C21_Witness ==
    /\ last.op = "Back"
    /\ last.ok
    /\ n = 2
    /\ r + n > Cap(Cur)
    /\ last.val # Zero

\* Every public method of Buffer.
Methods ==
    {"PushBack", "PushFront", "PopBack", "PopFront", "Front", "Back", "At", "Set",
     "Len", "Cap", "Empty", "Full", "Clear", "ToSlice", "Clone", "Resize",
     "All", "Values", "Backward", "Do"}

\* No s[k] with k outside [0, len(s)) and no % 0.
Faultless(op, B, i) ==
    /\ \A t \in Indexed(op, B, i) : 0 <= t[1] /\ t[1] < t[2]
    /\ \A d \in Divisors(op, B, i) : d # 0

\* C22: every index a public method computes in a reachable state lies in
\* [0, len) of the slice it indexes, the (r + n - 1) % c of PushBack, PopBack
\* and Back and the (r + c - 1) % c of PushFront included, so that no call
\* other than New(c < 1) and Resize(n < 1) ends in a runtime fault: this
\* holds of the call just made and of every call that can be made next.
C22_NoFault ==
    /\ ~last.panic
    /\ last.op \in Methods => Faultless(last.op, prev, last.i)
    /\ \A op \in Methods, i \in Indices : Faultless(op, Cur, i)

C22_Witness ==
    /\ last.op = "PushFront"
    /\ prev.r = 0
    /\ prev.n = 0
    /\ Cap(Cur) >= 2
    /\ r = Cap(Cur) - 1
    /\ PopBackIndex(Cur) = {<<r, Cap(Cur)>>}

\* C23: the legacy CircularBuffer, with its in-place three-reversal
\* shiftToZero and its Resize that shrinks the capacity without a new array,
\* is observationally equivalent to Buffer: from NewCircularBuffer(c) and
\* New(c), c >= 1, driven with the same PushBack, PushFront, PopBack,
\* PopFront, Clear and Resize(n >= 1), Size() = Len(), Capacity() = Cap() and
\* ToArray() = ToSlice() after every step.
C23_LegacyEquivalent ==
    /\ Size(legacy) = Len_(Cur)
    /\ Capacity(legacy) = Cap(Cur)
    /\ ToArray(legacy) = ToSlice(Cur)

C23_Witness ==
    /\ last.op = "Resize"
    /\ last.i < Cap(prev)
    /\ prev.r > 0
    /\ prev.r + prev.n > Cap(prev)
    /\ Len(legacy.buffer) > Capacity(legacy)
    /\ Size(legacy) >= 2
    /\ ToArray(legacy)[1] # ToArray(legacy)[2]

====
